---------------------------- MODULE Spec2Model ----------------------------
(***************************************************************************)
(* State-machine model of the snake game's simulation core: the           *)
(* useGameState hook (moveSnake, changeDirection, startGame, togglePause,  *)
(* resetGame, the trap-spawn timeout, the obstacle-reshape interval and    *)
(* the trap-removal timeout) together with the part of the                 *)
(* GameStorageService singleton the hook drives (session records, saved    *)
(* game).                                                                  *)
(*                                                                         *)
(* Each setGameState updater is one atomic action.  Math.random() is a     *)
(* nondeterministic draw from RandomSamples; wall-clock time is abstracted *)
(* to "a pending timer may fire".  The board and the counts of             *)
(* GAME_CONFIG are scaled down so that the state space is finite and       *)
(* small; the speed constants keep their source values.                    *)
(***************************************************************************)
EXTENDS Integers, Sequences, FiniteSets, TLC

(***************************************************************************)
(* Bounds of the model (scaled-down configuration and exploration caps).   *)
(***************************************************************************)
BoardWidth == 5
BoardHeight == 5
OBSTACLES_COUNT == 2
MAX_OBSTACLE_SIZE == 1
MAX_TRAPS == 2
SAFE_DISTANCE_FROM_SNAKE == 1
OBSTACLE_RESHAPE_MIN_TIME == 1000
OBSTACLE_RESHAPE_MAX_TIME == 3000
MaxTicks == 2
MaxSessions == 1
MAX_HISTORY_SIZE == 2
OldestGamesCleared == 1

(***************************************************************************)
(* Program constants that keep their source values.                        *)
(***************************************************************************)
MIN_OBSTACLE_SIZE == 1
INITIAL_SPEED == 150
SPEED_INCREASE == 10
SpeedStep == 5
MinSpeed == 50
SpeedEvery == 10

Directions == {"UP", "DOWN", "LEFT", "RIGHT"}

DIRECTIONS ==
  [d \in Directions |->
     CASE d = "UP"    -> [x |-> 0, y |-> -1]
       [] d = "DOWN"  -> [x |-> 0, y |-> 1]
       [] d = "LEFT"  -> [x |-> -1, y |-> 0]
       [] d = "RIGHT" -> [x |-> 1, y |-> 0]]

oppositeDirections ==
  [d \in Directions |->
     CASE d = "UP"    -> "DOWN"
       [] d = "DOWN"  -> "UP"
       [] d = "LEFT"  -> "RIGHT"
       [] d = "RIGHT" -> "LEFT"]

INITIAL_SNAKE == << [x |-> 2, y |-> 2], [x |-> 1, y |-> 2], [x |-> 0, y |-> 2] >>

(***************************************************************************)
(* Math.random(): the values in [0,1) the model draws, as <<num, den>>.    *)
(***************************************************************************)
RandomSamples == { <<0, 1>>, <<2, 3>> }

\* Math.floor(Math.random() * n) for the draw r
FloorRandom(r, n) == (r[1] * n) \div r[2]

Max(a, b) == IF a >= b THEN a ELSE b

Largest(S) == CHOOSE m \in S : \A other \in S : other <= m

NoPosition == [x |-> -1, y |-> -1]


(***************************************************************************)
(* Grid geometry and collision tests.                                      *)
(***************************************************************************)
\* JavaScript's % (the remainder takes the sign of the dividend)
JsRemainder(a, n) == IF a >= 0 THEN a % n ELSE -((-a) % n)

\* a faulty variant: one remainder only, which keeps the sign of the input
wrapPositionOneRemainder(position) ==
  [x |-> JsRemainder(position.x, BoardWidth),
   y |-> JsRemainder(position.y, BoardHeight)]

wrapPosition(position) ==
  [x |-> JsRemainder(JsRemainder(position.x, BoardWidth) + BoardWidth, BoardWidth),
   y |-> JsRemainder(JsRemainder(position.y, BoardHeight) + BoardHeight, BoardHeight)]

isObstacleCollision(position, obstacles) ==
  \E obstacle \in obstacles :
     /\ position.x >= obstacle.x
     /\ position.x < obstacle.x + obstacle.width
     /\ position.y >= obstacle.y
     /\ position.y < obstacle.y + obstacle.height

\* a faulty variant: every() in the place of some()
checkSelfCollisionEvery(snake) ==
  \A i \in 2..Len(snake) : snake[i].x = snake[1].x /\ snake[i].y = snake[1].y

\* snake.slice(1).some(segment => segment equals snake[0])
checkSelfCollision(snake) ==
  \E i \in 2..Len(snake) : snake[i].x = snake[1].x /\ snake[i].y = snake[1].y

reduceSnakeLength(snake) ==
  SubSeq(snake, 1, Max(1, Len(snake) \div 2))

(***************************************************************************)
(* Entity placement.  Every generator returns the SET of results its       *)
(* rejection-sampling loop can produce over the draws of RandomSamples.    *)
(***************************************************************************)
\* the cells an obstacle rectangle covers
ObstacleCells(o) ==
  { [x |-> o.x + dx, y |-> o.y + dy] : dx \in 0..(o.width - 1), dy \in 0..(o.height - 1) }

\* a faulty variant: only the snake's own cells are reserved, the margin is
\* dropped
ReservedAroundBodyOnly(snake, margin) ==
  { [x |-> snake[i].x, y |-> snake[i].y] : i \in 1..Len(snake) }

\* usedPositions after the forEach over the snake, on a board of
\* boardWidth x boardHeight cells: the snake's cells expanded by margin in
\* every direction, clipped to the board (no wrap-around)
ReservedAroundOn(snake, margin, boardWidth, boardHeight) ==
  { [x |-> snake[i].x + dx, y |-> snake[i].y + dy] :
      i \in 1..Len(snake), dx \in (-margin)..margin, dy \in (-margin)..margin }
  \cap { [x |-> x, y |-> y] : x \in 0..(boardWidth - 1), y \in 0..(boardHeight - 1) }

ReservedAround(snake, margin) ==
  ReservedAroundOn(snake, margin, BoardWidth, BoardHeight)

\* one attempt of the placement loop for obstacle i: random width, height
\* and origin (the id stands for `obstacle_${i}` / `obstacle_reshape_..._${i}`)
ObstacleDrawsOn(i, boardWidth, boardHeight) ==
  { [id |-> i, x |-> FloorRandom(rx, boardWidth - w), y |-> FloorRandom(ry, boardHeight - h),
     width |-> w, height |-> h] :
      <<w, h>> \in { <<FloorRandom(rw, MAX_OBSTACLE_SIZE - MIN_OBSTACLE_SIZE + 1) + MIN_OBSTACLE_SIZE,
                       FloorRandom(rh, MAX_OBSTACLE_SIZE - MIN_OBSTACLE_SIZE + 1) + MIN_OBSTACLE_SIZE>> :
                     rw \in RandomSamples, rh \in RandomSamples },
      rx \in RandomSamples, ry \in RandomSamples }

ObstacleDraws(i) == ObstacleDrawsOn(i, BoardWidth, BoardHeight)

\* hasConflict: the rectangle touches a used position
HasConflict(o, usedPositions) == ObstacleCells(o) \cap usedPositions # {}

\* the for-loop over the obstacles: obstacle i is placed on a conflict-free
\* draw, or skipped when no rectangle the loop can draw is conflict-free
\* (every attempt of its budget conflicts)
RECURSIVE PlaceObstaclesOn(_, _, _, _, _)
PlaceObstaclesOn(i, usedPositions, placed, boardWidth, boardHeight) ==
  IF i >= OBSTACLES_COUNT THEN { placed }
  ELSE LET ok == { o \in ObstacleDrawsOn(i, boardWidth, boardHeight) :
                     ~HasConflict(o, usedPositions) }
       IN  IF ok # {}
           THEN UNION { PlaceObstaclesOn(i + 1, usedPositions \cup ObstacleCells(o),
                                         placed \cup {o}, boardWidth, boardHeight) :
                          o \in ok }
           ELSE PlaceObstaclesOn(i + 1, usedPositions, placed, boardWidth, boardHeight)

PlaceObstacles(i, usedPositions, placed) ==
  PlaceObstaclesOn(i, usedPositions, placed, BoardWidth, BoardHeight)

\* the margin around INITIAL_SNAKE is the literal 3 in the source, scaled
\* with SAFE_DISTANCE_FROM_SNAKE (3 in the source as well)
generateObstaclesOn(boardWidth, boardHeight) ==
  PlaceObstaclesOn(0, ReservedAroundOn(INITIAL_SNAKE, SAFE_DISTANCE_FROM_SNAKE,
                                       boardWidth, boardHeight),
                   {}, boardWidth, boardHeight)

generateObstacles == generateObstaclesOn(BoardWidth, BoardHeight)

generateSafeObstacles(currentSnake) ==
  PlaceObstacles(0, ReservedAround(currentSnake, SAFE_DISTANCE_FROM_SNAKE), {})

\* one draw of a board cell
RandomCellsOn(boardWidth, boardHeight) ==
  { [x |-> FloorRandom(rx, boardWidth), y |-> FloorRandom(ry, boardHeight)] :
      rx \in RandomSamples, ry \in RandomSamples }

RandomCells == RandomCellsOn(BoardWidth, BoardHeight)

SamePosition(a, b) == a.x = b.x /\ a.y = b.y

\* a faulty variant: the obstacles are not consulted
FoodConflictIgnoringObstacles(newFood, snake, traps, obstacles) ==
  \/ \E i \in 1..Len(snake) : SamePosition(snake[i], newFood)
  \/ \E trap \in traps : SamePosition(trap, newFood)

\* the while-condition of generateRandomFood
FoodConflict(newFood, snake, traps, obstacles) ==
  \/ \E i \in 1..Len(snake) : SamePosition(snake[i], newFood)
  \/ \E trap \in traps : SamePosition(trap, newFood)
  \/ isObstacleCollision(newFood, obstacles)

\* the loop leaves with a free draw; when no cell it can draw is free the
\* attempt budget runs out and the last, conflicting draw is returned
\* (exhausted tells which)
generateRandomFoodOn(snake, traps, obstacles, boardWidth, boardHeight) ==
  LET free == { c \in RandomCellsOn(boardWidth, boardHeight) :
                  ~FoodConflict(c, snake, traps, obstacles) }
  IN  IF free # {}
      THEN { [position |-> c, exhausted |-> FALSE] : c \in free }
      ELSE { [position |-> c, exhausted |-> TRUE] : c \in RandomCellsOn(boardWidth, boardHeight) }

generateRandomFood(snake, traps, obstacles) ==
  generateRandomFoodOn(snake, traps, obstacles, BoardWidth, BoardHeight)

\* the while-condition of generateRandomTrap
TrapConflict(newTrap, snake, food, existingTraps, obstacles) ==
  \/ \E i \in 1..Len(snake) : SamePosition(snake[i], newTrap)
  \/ SamePosition(food, newTrap)
  \/ \E trap \in existingTraps : SamePosition(trap, newTrap)
  \/ isObstacleCollision(newTrap, obstacles)

\* the positions a new trap can get; NoPosition stands for the null result
\* (attempts >= maxAttempts), returned when no cell the loop can draw is free
generateRandomTrap(snake, food, existingTraps, obstacles) ==
  LET free == { c \in RandomCells : ~TrapConflict(c, snake, food, existingTraps, obstacles) }
  IN  IF free # {} THEN free ELSE { NoPosition }

\* Math.floor(reshapeTime / 1000) over the draws
ReshapeCountdowns ==
  { (OBSTACLE_RESHAPE_MIN_TIME * r[2]
       + r[1] * (OBSTACLE_RESHAPE_MAX_TIME - OBSTACLE_RESHAPE_MIN_TIME)) \div (1000 * r[2]) :
      r \in RandomSamples }

(***************************************************************************)
(* State.                                                                  *)
(*   gameState            the hook's GameState (useState)                  *)
(*   gameSpeed            gameSpeedRef.current                             *)
(*   trapSpawnTimer       a trap-spawn timeout is pending                  *)
(*   obstacleReshapeTimer the one-second reshape interval is running       *)
(*   removalTimers        ids of the triggered traps whose removal timeout *)
(*                        is pending (never cancelled by the hook)         *)
(*   gameSessionActive    gameSessionActiveRef.current                     *)
(*   storage              the gameStorage singleton: sessionOpen           *)
(*                        (sessionStartTime # 0), history, savedGame,      *)
(*                        statistics                                       *)
(*   ticks                the number of ticks so far (caps the run)        *)
(*   foodExhausted        some food placement used up its attempt budget   *)
(*   wrapCall             one call of wrapPosition: its argument and, once *)
(*                        it has returned, its result                      *)
(*   sessionLog           the sessions completed by the driver of the      *)
(*                        service-only specification, oldest first         *)
(*   board                the board size the GameConfig provider passes to *)
(*                        the hook                                         *)
(*   defaults             what the module-level DEFAULT_STORAGE_DATA holds *)
(*                        (its history array and its statistics object)    *)
(*                        and whether the service's data still refers to   *)
(*                        that history array; followed only in the         *)
(*                        specification of several service instances       *)
(*   setItem              how localStorage.setItem behaves: it works, it   *)
(*                        throws, or it throws QuotaExceededError and the  *)
(*                        retry after the clean-up works or throws         *)
(***************************************************************************)
VARIABLES gameState, gameSpeed, trapSpawnTimer, obstacleReshapeTimer,
          removalTimers, gameSessionActive, storage, ticks, foodExhausted,
          wrapCall, setItem, sessionLog, board, defaults

\* the variables the hook's handlers leave alone: those of the single-call
\* specifications, the browser's storage behaviour, the board size and the
\* storage defaults
callVars == << wrapCall, setItem, sessionLog, board, defaults >>

vars == << gameState, gameSpeed, trapSpawnTimer, obstacleReshapeTimer,
           removalTimers, gameSessionActive, storage, ticks, foodExhausted,
           callVars >>

NoSavedGame == [present |-> FALSE]

\* the score of the saved games a page load may find in storage
SavedScore == 9

\* the tick interval a game has reached at a score
SpeedAtScore(score) == Max(MinSpeed, INITIAL_SPEED - SpeedStep * (score \div SpeedEvery))

\* the initial GameState of useState's initializer without a saved game, for
\* the board size passed to the hook
FreshGameStatesOn(boardWidth, boardHeight) ==
  { [snake |-> INITIAL_SNAKE, food |-> f.position, traps |-> {}, obstacles |-> obstacles,
     direction |-> "RIGHT", score |-> 0, isGameOver |-> FALSE, isPlaying |-> FALSE,
     trapWarning |-> NoPosition, obstacleReshapeCountdown |-> c,
     exhausted |-> f.exhausted] :
      <<obstacles, f>> \in UNION { { <<o, g>> : g \in generateRandomFoodOn(INITIAL_SNAKE, {}, o,
                                                                          boardWidth, boardHeight) } :
                                    o \in generateObstaclesOn(boardWidth, boardHeight) },
      c \in ReshapeCountdowns }

FreshGameStates == FreshGameStatesOn(BoardWidth, BoardHeight)

GameStateOf(fresh) ==
  [snake |-> fresh.snake, food |-> fresh.food, traps |-> fresh.traps,
   obstacles |-> fresh.obstacles, direction |-> fresh.direction, score |-> fresh.score,
   isGameOver |-> fresh.isGameOver, isPlaying |-> fresh.isPlaying,
   trapWarning |-> fresh.trapWarning,
   obstacleReshapeCountdown |-> fresh.obstacleReshapeCountdown]

\* the saved games a page load may find in storage: games saved in play at
\* SavedScore, before the first tick, with the food down-right of the head
SavedGames ==
  { [GameStateOf(fresh) EXCEPT !.isPlaying = TRUE, !.score = SavedScore] :
      fresh \in { g \in FreshGameStates :
                    /\ ~g.exhausted
                    /\ g.food = [x |-> INITIAL_SNAKE[1].x + 1, y |-> INITIAL_SNAKE[1].y + 1]
                    /\ g.obstacleReshapeCountdown = Largest(ReshapeCountdowns) } }

\* DEFAULT_STORAGE_DATA's statistics; averageScore is kept as the fraction
\* the code divides out
DefaultStatistics ==
  [totalGamesPlayed |-> 0, bestScore |-> 0,
   averageScore |-> [numerator |-> 0, denominator |-> 1],
   gamesThisSession |-> 0]

\* a service constructed on empty localStorage
DefaultStorage ==
  [sessionOpen |-> FALSE, history |-> << >>, savedGame |-> NoSavedGame,
   statistics |-> DefaultStatistics]

\* DEFAULT_STORAGE_DATA as the module defines it, the data of the service
\* constructed on empty storage being a shallow copy of it
PristineDefaults ==
  [history |-> << >>, statistics |-> DefaultStatistics, historyShared |-> TRUE]

\* first mount with empty storage
InitFresh ==
  \E fresh \in FreshGameStates :
     /\ gameState = GameStateOf(fresh)
     /\ foodExhausted = fresh.exhausted
     /\ gameSpeed = INITIAL_SPEED
     /\ trapSpawnTimer = FALSE
     /\ obstacleReshapeTimer = FALSE
     /\ gameSessionActive = FALSE
     /\ storage = DefaultStorage

\* mount with a game saved mid-play in storage: useState takes the saved
\* GameState, gameSpeedRef the saved speed, and the resume-on-mount effect
\* calls resumeSavedGame (session reopened, trap timer scheduled)
ResumedFrom(saved) ==
  /\ gameState = saved
  /\ foodExhausted = FALSE
  /\ gameSpeed = SpeedAtScore(saved.score)
  /\ trapSpawnTimer = TRUE
  /\ obstacleReshapeTimer = FALSE
  /\ gameSessionActive = TRUE
  /\ storage = [DefaultStorage EXCEPT
                  !.sessionOpen = TRUE,
                  !.savedGame = [present |-> TRUE, gameState |-> saved,
                                 gameSpeed |-> SpeedAtScore(saved.score)],
                  !.statistics.gamesThisSession = 1]

InitResumed == \E saved \in SavedGames : ResumedFrom(saved)

\* saved games with an untriggered trap on the cell in front of the head
SavedGamesBeforeTrap ==
  { [saved EXCEPT !.traps = { [id |-> 1, x |-> saved.snake[1].x + 1,
                               y |-> saved.snake[1].y, isTriggered |-> FALSE] }] :
      saved \in SavedGames }

\* no call of wrapPosition is under way
NoWrapCall == [position |-> NoPosition, returned |-> FALSE, result |-> NoPosition]

\* the desktop board, the one the hook's handlers are modelled on
DesktopBoard == [width |-> BoardWidth, height |-> BoardHeight]

HookInit ==
  /\ InitFresh \/ InitResumed
  /\ removalTimers = {}
  /\ ticks = 0
  /\ wrapCall = NoWrapCall
  /\ sessionLog = << >>
  /\ board = DesktopBoard
  /\ defaults = PristineDefaults

\* the hook mounted in a browser whose localStorage works
Init ==
  /\ HookInit
  /\ setItem = "ok"

(***************************************************************************)
(* GameStorageService, as far as the hook drives it.                       *)
(***************************************************************************)
\* history.reduce((sum, game) => sum + game.score, 0)
RECURSIVE TotalScore(_)
TotalScore(history) ==
  IF history = << >> THEN 0
  ELSE history[1].score + TotalScore(Tail(history))

\* clearOldestGames(count): history.slice(count)
clearOldestGames(st, count) ==
  [st EXCEPT !.history = SubSeq(st.history, count + 1, Len(st.history))]

\* a faulty variant: slice(0, max) keeps the oldest sessions
saveDataKeepingOldest(st) ==
  LET cut == IF Len(st.history) > MAX_HISTORY_SIZE
             THEN [st EXCEPT !.history = SubSeq(st.history, 1, MAX_HISTORY_SIZE)]
             ELSE st
  IN  IF setItem \in { "quota-then-ok", "quota-then-throws" }
      THEN clearOldestGames(cut, OldestGamesCleared)
      ELSE cut

\* saveData, the data it leaves in memory: the history is cut to its last
\* MAX_HISTORY_SIZE sessions before the write; a QuotaExceededError drops the
\* oldest games before the retry
saveData(st) ==
  LET cut == IF Len(st.history) > MAX_HISTORY_SIZE
             THEN [st EXCEPT !.history =
                     SubSeq(st.history, Len(st.history) - MAX_HISTORY_SIZE + 1,
                            Len(st.history))]
             ELSE st
  IN  IF setItem \in { "quota-then-ok", "quota-then-throws" }
      THEN clearOldestGames(cut, OldestGamesCleared)
      ELSE cut

\* a faulty variant: the catch block reports success
saveDataReturnsTrue == TRUE

\* saveData, the value it returns: true when the write or the retry worked
saveDataReturns == setItem \in { "ok", "quota-then-ok" }

startGameSession(st) ==
  [st EXCEPT !.sessionOpen = TRUE,
             !.statistics.gamesThisSession = st.statistics.gamesThisSession + 1]

endGameSession(st, finalScore, snakeLength, endReason) ==
  IF ~st.sessionOpen THEN st
  ELSE LET history == Append(st.history,
                             [score |-> finalScore, snakeLength |-> snakeLength,
                              endReason |-> endReason])
           totalGamesPlayed == st.statistics.totalGamesPlayed + 1
       IN  saveData([sessionOpen |-> FALSE,
                     history |-> history,
                     savedGame |-> NoSavedGame,
                     statistics |->
                       [st.statistics EXCEPT
                          !.totalGamesPlayed = totalGamesPlayed,
                          !.bestScore = Max(st.statistics.bestScore, finalScore),
                          !.averageScore = [numerator |-> TotalScore(history),
                                            denominator |-> totalGamesPlayed]]])

endGameSessionReturns(st) == st.sessionOpen /\ saveDataReturns

saveGameState(st, gs, speed) ==
  IF ~st.sessionOpen THEN st
  ELSE saveData([st EXCEPT !.savedGame = [present |-> TRUE, gameState |-> gs,
                                          gameSpeed |-> speed]])

saveGameStateReturns(st) == st.sessionOpen /\ saveDataReturns

clearSavedGame(st) == saveData([st EXCEPT !.savedGame = NoSavedGame])

clearSavedGameReturns == saveDataReturns

\* getGameHistory: [...history].reverse()
getGameHistory(st) ==
  [i \in 1..Len(st.history) |-> st.history[Len(st.history) + 1 - i]]

(***************************************************************************)
(* moveSnake: one tick.                                                    *)
(***************************************************************************)
\* the wrapped cell the head moves to
NewHead(gs) ==
  wrapPosition([x |-> gs.snake[1].x + DIRECTIONS[gs.direction].x,
                y |-> gs.snake[1].y + DIRECTIONS[gs.direction].y])

\* traps.find(trap => !trap.isTriggered && trap at newHead)
HitTraps(gs) ==
  { trap \in gs.traps : ~trap.isTriggered /\ SamePosition(trap, NewHead(gs)) }

AteFood(gs) == SamePosition(NewHead(gs), gs.food)

SelfCollision(gs) == checkSelfCollision(<< NewHead(gs) >> \o gs.snake)

ObstacleCollision(gs) == isObstacleCollision(NewHead(gs), gs.obstacles)

\* a faulty variant: the move is committed before the game ends
GameOverTickCommitting(endReason) ==
  /\ gameState' = [gameState EXCEPT !.isGameOver = TRUE, !.isPlaying = FALSE,
                                    !.snake = SubSeq(<< NewHead(gameState) >> \o gameState.snake,
                                                     1, Len(gameState.snake))]
  /\ storage' = IF gameSessionActive
                THEN endGameSession(storage, gameState.score, Len(gameState.snake), endReason)
                ELSE storage
  /\ gameSessionActive' = FALSE
  /\ UNCHANGED << gameSpeed, removalTimers, foodExhausted >>

\* the game-over branches: the session ends, the state keeps all but the flags
GameOverTick(endReason) ==
  /\ gameState' = [gameState EXCEPT !.isGameOver = TRUE, !.isPlaying = FALSE]
  /\ storage' = IF gameSessionActive
                THEN endGameSession(storage, gameState.score, Len(gameState.snake), endReason)
                ELSE storage
  /\ gameSessionActive' = FALSE
  /\ UNCHANGED << gameSpeed, removalTimers, foodExhausted >>

\* Math.max(50, gameSpeedRef.current - 5) on every 10th point
AcceleratedSpeed(speed, newScore) ==
  IF newScore % SpeedEvery = 0 THEN Max(MinSpeed, speed - SpeedStep) ELSE speed

\* a faulty variant: the plain move keeps the tail cell
AdvanceTickKeepingTail ==
  LET hit      == HitTraps(gameState)
      hitTrap  == CHOOSE trap \in hit : TRUE
      grown    == << NewHead(gameState) >> \o gameState.snake
      newSnake == IF hit # {} THEN reduceSnakeLength(grown) ELSE grown
      newTraps == IF hit # {}
                  THEN { IF trap.id = hitTrap.id THEN [trap EXCEPT !.isTriggered = TRUE] ELSE trap :
                           trap \in gameState.traps }
                  ELSE gameState.traps
      trapWarning == IF hit # {} THEN [x |-> hitTrap.x, y |-> hitTrap.y] ELSE NoPosition
  IN  /\ removalTimers' = IF hit # {} THEN removalTimers \cup { hitTrap.id } ELSE removalTimers
      /\ IF AteFood(gameState)
         THEN \E f \in generateRandomFood(newSnake, newTraps, gameState.obstacles) :
                 /\ gameState' = [gameState EXCEPT !.snake = newSnake, !.food = f.position,
                                                   !.score = gameState.score + 1,
                                                   !.traps = newTraps,
                                                   !.trapWarning = trapWarning]
                 /\ foodExhausted' = (foodExhausted \/ f.exhausted)
                 /\ gameSpeed' = AcceleratedSpeed(gameSpeed, gameState.score + 1)
         ELSE /\ gameState' = [gameState EXCEPT
                                 !.snake = newSnake,
                                 !.traps = newTraps,
                                 !.trapWarning = trapWarning]
              /\ UNCHANGED << foodExhausted, gameSpeed >>
      /\ UNCHANGED << storage, gameSessionActive >>

\* the branches after the collision checks: trap hit, food, plain move
AdvanceTick ==
  LET hit      == HitTraps(gameState)
      hitTrap  == CHOOSE trap \in hit : TRUE
      grown    == << NewHead(gameState) >> \o gameState.snake
      newSnake == IF hit # {} THEN reduceSnakeLength(grown) ELSE grown
      newTraps == IF hit # {}
                  THEN { IF trap.id = hitTrap.id THEN [trap EXCEPT !.isTriggered = TRUE] ELSE trap :
                           trap \in gameState.traps }
                  ELSE gameState.traps
      trapWarning == IF hit # {} THEN [x |-> hitTrap.x, y |-> hitTrap.y] ELSE NoPosition
  IN  /\ removalTimers' = IF hit # {} THEN removalTimers \cup { hitTrap.id } ELSE removalTimers
      /\ IF AteFood(gameState)
         THEN \E f \in generateRandomFood(newSnake, newTraps, gameState.obstacles) :
                 /\ gameState' = [gameState EXCEPT !.snake = newSnake, !.food = f.position,
                                                   !.score = gameState.score + 1,
                                                   !.traps = newTraps,
                                                   !.trapWarning = trapWarning]
                 /\ foodExhausted' = (foodExhausted \/ f.exhausted)
                 /\ gameSpeed' = AcceleratedSpeed(gameSpeed, gameState.score + 1)
         ELSE /\ gameState' = [gameState EXCEPT
                                 !.snake = IF hit # {} THEN newSnake
                                           ELSE SubSeq(newSnake, 1, Len(newSnake) - 1),
                                 !.traps = newTraps,
                                 !.trapWarning = trapWarning]
              /\ UNCHANGED << foodExhausted, gameSpeed >>
      /\ UNCHANGED << storage, gameSessionActive >>

MoveSnake ==
  /\ gameState.isPlaying /\ ~gameState.isGameOver
  /\ ticks < MaxTicks
  /\ ticks' = ticks + 1
  /\ IF SelfCollision(gameState) THEN GameOverTick("self-collision")
     ELSE IF ObstacleCollision(gameState) THEN GameOverTick("obstacle-collision")
     ELSE AdvanceTick
  /\ UNCHANGED << trapSpawnTimer, obstacleReshapeTimer, callVars >>

(***************************************************************************)
(* The schedulers' callbacks.                                              *)
(***************************************************************************)
\* `trap_${Date.now()}_${Math.random()}`: an id no live trap and no pending
\* removal timeout carries (ids are only ever compared for equality)
FreshTrapId ==
  CHOOSE id \in 1..(MAX_TRAPS + MaxTicks + 1) :
     /\ id \notin removalTimers
     /\ \A trap \in gameState.traps : trap.id # id
     /\ \A other \in 1..(id - 1) :
           other \in removalTimers \/ \E trap \in gameState.traps : trap.id = other

\* a faulty variant: the callback does not look at the number of traps
TrapSpawnFiresUncapped ==
  /\ trapSpawnTimer
  /\ IF \/ ~gameState.isPlaying
        \/ gameState.isGameOver
     THEN UNCHANGED gameState
     ELSE \E newTrap \in generateRandomTrap(gameState.snake, gameState.food,
                                               gameState.traps, gameState.obstacles) :
             IF newTrap = NoPosition
             THEN UNCHANGED gameState
             ELSE gameState' = [gameState EXCEPT !.traps =
                                  gameState.traps \cup
                                    { [id |-> FreshTrapId, x |-> newTrap.x, y |-> newTrap.y,
                                       isTriggered |-> FALSE] }]
  /\ UNCHANGED << gameSpeed, trapSpawnTimer, obstacleReshapeTimer, removalTimers,
                  gameSessionActive, storage, ticks, foodExhausted, callVars >>

\* a faulty variant: the callback re-arms the timeout only when it looked for
\* a cell
TrapSpawnFiresRearmingOnAttempt ==
  /\ trapSpawnTimer
  /\ IF \/ ~gameState.isPlaying
        \/ gameState.isGameOver
        \/ Cardinality(gameState.traps) >= MAX_TRAPS
     THEN UNCHANGED gameState /\ trapSpawnTimer' = FALSE
     ELSE /\ UNCHANGED trapSpawnTimer
          /\ \E newTrap \in generateRandomTrap(gameState.snake, gameState.food,
                                                  gameState.traps, gameState.obstacles) :
                IF newTrap = NoPosition
                THEN UNCHANGED gameState
                ELSE gameState' = [gameState EXCEPT !.traps =
                                     gameState.traps \cup
                                       { [id |-> FreshTrapId, x |-> newTrap.x, y |-> newTrap.y,
                                          isTriggered |-> FALSE] }]
  /\ UNCHANGED << gameSpeed, obstacleReshapeTimer, removalTimers,
                  gameSessionActive, storage, ticks, foodExhausted, callVars >>

\* the trap-spawn timeout fires; scheduleNextTrap() re-arms it in any case
TrapSpawnFires ==
  /\ trapSpawnTimer
  /\ IF \/ ~gameState.isPlaying
        \/ gameState.isGameOver
        \/ Cardinality(gameState.traps) >= MAX_TRAPS
     THEN UNCHANGED gameState
     ELSE \E newTrap \in generateRandomTrap(gameState.snake, gameState.food,
                                               gameState.traps, gameState.obstacles) :
             IF newTrap = NoPosition
             THEN UNCHANGED gameState
             ELSE gameState' = [gameState EXCEPT !.traps =
                                  gameState.traps \cup
                                    { [id |-> FreshTrapId, x |-> newTrap.x, y |-> newTrap.y,
                                       isTriggered |-> FALSE] }]
  /\ UNCHANGED << gameSpeed, trapSpawnTimer, obstacleReshapeTimer, removalTimers,
                  gameSessionActive, storage, ticks, foodExhausted, callVars >>

\* a faulty variant: the reshape waits until the countdown has passed zero
ReshapeTimerFiresBelowZero ==
  /\ obstacleReshapeTimer
  /\ IF ~gameState.isPlaying \/ gameState.isGameOver
     THEN UNCHANGED << gameState, foodExhausted >>
     ELSE IF gameState.obstacleReshapeCountdown - 1 < 0
     THEN \E newObstacles \in generateSafeObstacles(gameState.snake) :
            \E newFood \in generateRandomFood(gameState.snake, gameState.traps, newObstacles) :
              \E c \in ReshapeCountdowns :
                 /\ gameState' = [gameState EXCEPT !.obstacles = newObstacles,
                                                   !.food = newFood.position,
                                                   !.obstacleReshapeCountdown = c]
                 /\ foodExhausted' = (foodExhausted \/ newFood.exhausted)
     ELSE /\ gameState' = [gameState EXCEPT !.obstacleReshapeCountdown =
                                              gameState.obstacleReshapeCountdown - 1]
          /\ UNCHANGED foodExhausted
  /\ UNCHANGED << gameSpeed, trapSpawnTimer, obstacleReshapeTimer, removalTimers,
                  gameSessionActive, storage, ticks, callVars >>

\* one firing of the one-second reshape interval
ReshapeTimerFires ==
  /\ obstacleReshapeTimer
  /\ IF ~gameState.isPlaying \/ gameState.isGameOver
     THEN UNCHANGED << gameState, foodExhausted >>
     ELSE IF gameState.obstacleReshapeCountdown - 1 <= 0
     THEN \E newObstacles \in generateSafeObstacles(gameState.snake) :
            \E newFood \in generateRandomFood(gameState.snake, gameState.traps, newObstacles) :
              \E c \in ReshapeCountdowns :
                 /\ gameState' = [gameState EXCEPT !.obstacles = newObstacles,
                                                   !.food = newFood.position,
                                                   !.obstacleReshapeCountdown = c]
                 /\ foodExhausted' = (foodExhausted \/ newFood.exhausted)
     ELSE /\ gameState' = [gameState EXCEPT !.obstacleReshapeCountdown =
                                              gameState.obstacleReshapeCountdown - 1]
          /\ UNCHANGED foodExhausted
  /\ UNCHANGED << gameSpeed, trapSpawnTimer, obstacleReshapeTimer, removalTimers,
                  gameSessionActive, storage, ticks, callVars >>

\* the timeout set on a trap hit fires TRAP_WARNING_DURATION later
TrapRemovalFires(id) ==
  /\ id \in removalTimers
  /\ removalTimers' = removalTimers \ { id }
  /\ gameState' = [gameState EXCEPT !.traps = { trap \in gameState.traps : trap.id # id },
                                    !.trapWarning = NoPosition]
  /\ UNCHANGED << gameSpeed, trapSpawnTimer, obstacleReshapeTimer, gameSessionActive,
                  storage, ticks, foodExhausted, callVars >>

(***************************************************************************)
(* Direction input.                                                        *)
(***************************************************************************)
changeDirection(gs, newDirection) == [gs EXCEPT !.direction = newDirection]

\* useKeyboard: lastDirectionRef follows gameState.direction (GameBoard's
\* effect calls updateLastDirection after every render); a key that is the
\* reverse of it is dropped
KeyPress(newDirection) ==
  /\ newDirection # oppositeDirections[gameState.direction]
  /\ gameState' = changeDirection(gameState, newDirection)
  /\ UNCHANGED << gameSpeed, trapSpawnTimer, obstacleReshapeTimer, removalTimers,
                  gameSessionActive, storage, ticks, foodExhausted, callVars >>

\* useTouchControls: a swipe while playing calls changeDirection unfiltered
TouchSwipe(newDirection) ==
  /\ gameState.isPlaying
  /\ gameState' = changeDirection(gameState, newDirection)
  /\ UNCHANGED << gameSpeed, trapSpawnTimer, obstacleReshapeTimer, removalTimers,
                  gameSessionActive, storage, ticks, foodExhausted, callVars >>

(***************************************************************************)
(* Session lifecycle.                                                      *)
(***************************************************************************)
\* startGame while the service still tracks a session (the hook has no
\* guard against it), once more than the MaxSessions starts of StartGame
RestartGame ==
  /\ storage.sessionOpen
  /\ storage.statistics.gamesThisSession = MaxSessions
  /\ storage' = startGameSession(storage)
  /\ gameSessionActive' = TRUE
  /\ gameState' = [gameState EXCEPT !.isPlaying = TRUE, !.isGameOver = FALSE]
  /\ trapSpawnTimer' = TRUE
  /\ obstacleReshapeTimer' = TRUE
  /\ UNCHANGED << gameSpeed, removalTimers, ticks, foodExhausted, callVars >>

StartGame ==
  /\ storage.statistics.gamesThisSession < MaxSessions
  /\ storage' = startGameSession(storage)
  /\ gameSessionActive' = TRUE
  /\ gameState' = [gameState EXCEPT !.isPlaying = TRUE, !.isGameOver = FALSE]
  /\ trapSpawnTimer' = TRUE
  /\ obstacleReshapeTimer' = TRUE
  /\ UNCHANGED << gameSpeed, removalTimers, ticks, foodExhausted, callVars >>

\* a faulty variant: pausing takes the resume branch as well and leaves the
\* timers running
ResumesTimersOnPause(gs) == ~gs.isGameOver

\* whether togglePause takes its resume branch (timers started) or its
\* else branch (timers cleared)
ResumesTimers(gs) == ~gs.isPlaying /\ ~gs.isGameOver

TogglePause ==
  /\ trapSpawnTimer' = ResumesTimers(gameState)
  /\ obstacleReshapeTimer' = ResumesTimers(gameState)
  /\ gameState' = [gameState EXCEPT !.isPlaying = ~gameState.isPlaying]
  /\ UNCHANGED << gameSpeed, removalTimers, gameSessionActive, storage, ticks,
                  foodExhausted, callVars >>

\* a faulty variant: the tick interval is not put back to INITIAL_SPEED
ResetGameKeepingSpeed ==
  /\ storage' = clearSavedGame(IF gameSessionActive
                               THEN endGameSession(storage, gameState.score,
                                                   Len(gameState.snake), "user-quit")
                               ELSE storage)
  /\ gameSessionActive' = FALSE
  /\ trapSpawnTimer' = FALSE
  /\ obstacleReshapeTimer' = FALSE
  /\ \E fresh \in FreshGameStates :
        /\ gameState' = GameStateOf(fresh)
        /\ foodExhausted' = (foodExhausted \/ fresh.exhausted)
  /\ UNCHANGED << gameSpeed, removalTimers, ticks, callVars >>

ResetGame ==
  /\ storage' = clearSavedGame(IF gameSessionActive
                               THEN endGameSession(storage, gameState.score,
                                                   Len(gameState.snake), "user-quit")
                               ELSE storage)
  /\ gameSessionActive' = FALSE
  /\ trapSpawnTimer' = FALSE
  /\ obstacleReshapeTimer' = FALSE
  /\ gameSpeed' = INITIAL_SPEED
  /\ \E fresh \in FreshGameStates :
        /\ gameState' = GameStateOf(fresh)
        /\ foodExhausted' = (foodExhausted \/ fresh.exhausted)
  /\ UNCHANGED << removalTimers, ticks, callVars >>

Next ==
  \/ MoveSnake
  \/ TrapSpawnFires
  \/ ReshapeTimerFires
  \/ \E id \in removalTimers : TrapRemovalFires(id)
  \/ \E d \in Directions : KeyPress(d)
  \/ \E d \in Directions : TouchSwipe(d)
  \/ StartGame
  \/ TogglePause
  \/ ResetGame

Spec == Init /\ [][Next]_vars

\* saveGame, as the five-second autosave interval calls it while playing
\* (capped at one save for each saved game the service holds)
SaveGame ==
  /\ gameState.isPlaying /\ ~gameState.isGameOver
  /\ gameSessionActive
  /\ ~storage.savedGame.present
  /\ storage' = saveGameState(storage, gameState, gameSpeed)
  /\ UNCHANGED << gameState, gameSpeed, trapSpawnTimer, obstacleReshapeTimer,
                  removalTimers, gameSessionActive, ticks, foodExhausted, callVars >>

\* the hook with its autosave, mounted in a browser whose localStorage
\* refuses every write with QuotaExceededError, the retry included (the run
\* is capped at one tick, so one of the saved games it may resume has a trap
\* in front of the head)
BrokenStorageInit ==
  /\ \/ InitFresh
     \/ InitResumed
     \/ \E saved \in SavedGamesBeforeTrap : ResumedFrom(saved)
  /\ removalTimers = {}
  /\ ticks = MaxTicks - 1
  /\ wrapCall = NoWrapCall
  /\ sessionLog = << >>
  /\ board = DesktopBoard
  /\ defaults = PristineDefaults
  /\ setItem = "quota-then-throws"

BrokenStorageNext ==
  \/ Next
  \/ SaveGame

BrokenStorageSpec == BrokenStorageInit /\ [][BrokenStorageNext]_vars

\* the same hook with one more start allowed while a session is open
SessionNext ==
  \/ Next
  \/ RestartGame

SessionSpec == Init /\ [][SessionNext]_vars

\* the hook on a device without a touch screen: direction requests come
\* through the keyboard handler only
KeyboardNext ==
  \/ MoveSnake
  \/ TrapSpawnFires
  \/ ReshapeTimerFires
  \/ \E id \in removalTimers : TrapRemovalFires(id)
  \/ \E d \in Directions : KeyPress(d)
  \/ StartGame
  \/ TogglePause
  \/ ResetGame

KeyboardSpec == Init /\ [][KeyboardNext]_vars

\* the games the autosave stores right after the tick that triggered the
\* trap in front of the head: the snake halved onto the trap's cell, the trap
\* marked, the warning set
SavedGamesWithTriggeredTrap ==
  { [saved EXCEPT !.snake = reduceSnakeLength(<< NewHead(saved) >> \o saved.snake),
                  !.traps = { [trap EXCEPT !.isTriggered = TRUE] : trap \in saved.traps },
                  !.trapWarning = NewHead(saved)] :
      saved \in SavedGamesBeforeTrap }

\* a page load: first mount, mount with a game saved in play (some with a
\* trap in front of the head), or mount with a game autosaved while its trap
\* was triggered (the removal timeout of the page that saved it is gone with
\* that page)
ReloadInit ==
  /\ \/ InitFresh
     \/ InitResumed
     \/ \E saved \in SavedGamesBeforeTrap : ResumedFrom(saved)
     \/ \E saved \in SavedGamesWithTriggeredTrap : ResumedFrom(saved)
  /\ removalTimers = {}
  /\ ticks = 0
  /\ wrapCall = NoWrapCall
  /\ sessionLog = << >>
  /\ board = DesktopBoard
  /\ defaults = PristineDefaults
  /\ setItem = "ok"

\* the hook under the browser's event loop: a pending removal timeout runs
\* its callback sooner or later (nothing in the hook cancels it)
ReloadSpec ==
  /\ ReloadInit
  /\ [][Next]_vars
  /\ WF_vars(\E id \in removalTimers : TrapRemovalFires(id))

(***************************************************************************)
(* wrapPosition called on its own: any raw position up to WrapReach cells  *)
(* off the board, the hook mounted and idle.                               *)
(***************************************************************************)
WrapReach == 6

\* the hook as first mounted on one board, which the single calls leave alone
hookVars == << gameState, gameSpeed, trapSpawnTimer, obstacleReshapeTimer,
               removalTimers, gameSessionActive, storage, ticks, foodExhausted,
               setItem, sessionLog, board, defaults >>

HookIdle ==
  LET fresh == CHOOSE g \in FreshGameStates : ~g.exhausted
  IN  /\ gameState = GameStateOf(fresh)
      /\ foodExhausted = FALSE
      /\ gameSpeed = INITIAL_SPEED
      /\ trapSpawnTimer = FALSE
      /\ obstacleReshapeTimer = FALSE
      /\ gameSessionActive = FALSE
      /\ storage = DefaultStorage
      /\ removalTimers = {}
      /\ ticks = 0
      /\ setItem = "ok"
      /\ sessionLog = << >>
      /\ board = DesktopBoard
      /\ defaults = PristineDefaults

WrapInit ==
  /\ HookIdle
  /\ \E x \in (0 - WrapReach)..(BoardWidth + WrapReach) :
       \E y \in (0 - WrapReach)..(BoardHeight + WrapReach) :
          wrapCall = [position |-> [x |-> x, y |-> y], returned |-> FALSE,
                      result |-> NoPosition]

WrapReturns ==
  /\ ~wrapCall.returned
  /\ wrapCall' = [wrapCall EXCEPT !.returned = TRUE,
                                  !.result = wrapPosition(wrapCall.position)]
  /\ UNCHANGED hookVars

WrapNext == WrapReturns

WrapSpec == WrapInit /\ [][WrapNext]_vars

(***************************************************************************)
(* The GameStorageService driven on its own, as its tests drive it: up to  *)
(* MaxServiceSessions sessions with final scores up to MaxServiceScore,    *)
(* saves and clears in between, and a localStorage that changes its        *)
(* behaviour at any time.                                                  *)
(***************************************************************************)
MaxServiceSessions == 4
MaxServiceScore == 2

WriteOutcomes == { "ok", "throws", "quota-then-ok", "quota-then-throws" }

\* the hook's own state, the board and the defaults, which the calls of the
\* one service instance leave alone
gameVars == << gameState, gameSpeed, trapSpawnTimer, obstacleReshapeTimer,
               removalTimers, gameSessionActive, ticks, foodExhausted, board,
               defaults >>

StorageInit ==
  /\ HookIdle
  /\ wrapCall = NoWrapCall

ServiceStart ==
  /\ storage.statistics.gamesThisSession < MaxServiceSessions
  /\ storage' = startGameSession(storage)
  /\ UNCHANGED << gameVars, callVars >>

\* endGameSession(finalScore, snakeLength, endReason) on an open session
ServiceEnd(finalScore, endReason) ==
  /\ storage.sessionOpen
  /\ storage' = endGameSession(storage, finalScore, Len(INITIAL_SNAKE) + finalScore,
                               endReason)
  /\ sessionLog' = Append(sessionLog,
                          [score |-> finalScore,
                           snakeLength |-> Len(INITIAL_SNAKE) + finalScore,
                           endReason |-> endReason])
  /\ UNCHANGED << gameVars, wrapCall, setItem >>

ServiceSave ==
  /\ storage.sessionOpen
  /\ storage' = saveGameState(storage, gameState, gameSpeed)
  /\ UNCHANGED << gameVars, callVars >>

ServiceClear ==
  /\ storage' = clearSavedGame(storage)
  /\ UNCHANGED << gameVars, callVars >>

\* localStorage starts or stops throwing
SetItemChanges ==
  /\ setItem' \in WriteOutcomes \ { setItem }
  /\ UNCHANGED << gameVars, storage, wrapCall, sessionLog >>

StorageNext ==
  \/ ServiceStart
  \/ \E finalScore \in 0..MaxServiceScore :
       \E endReason \in { "self-collision", "user-quit" } :
          ServiceEnd(finalScore, endReason)
  \/ ServiceSave
  \/ ServiceClear
  \/ SetItemChanges

StorageSpec == StorageInit /\ [][StorageNext]_vars

(***************************************************************************)
(* Several GameStorageService instances, each constructed on emptied       *)
(* localStorage as the beforeEach of the service's tests does: loadData    *)
(* returns { ...DEFAULT_STORAGE_DATA }, a copy of the top level only, so   *)
(* the instance's history and statistics are the objects of the defaults   *)
(* until the instance assigns an array of its own.                         *)
(***************************************************************************)
instanceFrame == << gameState, gameSpeed, trapSpawnTimer, obstacleReshapeTimer,
                    removalTimers, gameSessionActive, ticks, foodExhausted,
                    board, wrapCall, setItem, sessionLog >>

InstancesInit ==
  /\ HookIdle
  /\ wrapCall = NoWrapCall

\* startGameSession: statistics.gamesThisSession++ on the shared object
InstanceStart ==
  /\ storage.statistics.gamesThisSession < MaxServiceSessions
  /\ storage' = startGameSession(storage)
  /\ defaults' = [defaults EXCEPT !.statistics = storage'.statistics]
  /\ UNCHANGED instanceFrame

\* endGameSession: history.push and the statistics updates act on the
\* objects the data refers to; saveData's slice gives the instance an array
\* of its own
InstanceEnd(finalScore, endReason) ==
  /\ storage.sessionOpen
  /\ LET snakeLength == Len(INITIAL_SNAKE) + finalScore
         pushed      == Append(storage.history,
                               [score |-> finalScore, snakeLength |-> snakeLength,
                                endReason |-> endReason])
     IN  /\ storage' = endGameSession(storage, finalScore, snakeLength, endReason)
         /\ defaults' =
              [history |-> IF defaults.historyShared THEN pushed ELSE defaults.history,
               statistics |-> storage'.statistics,
               historyShared |-> /\ defaults.historyShared
                                 /\ Len(pushed) <= MAX_HISTORY_SIZE
                                 /\ setItem \notin { "quota-then-ok", "quota-then-throws" }]
  /\ UNCHANGED instanceFrame

\* localStorage is emptied and new GameStorageService() runs loadData
InstanceConstruct ==
  /\ storage' = [sessionOpen |-> FALSE, history |-> defaults.history,
                 savedGame |-> NoSavedGame, statistics |-> defaults.statistics]
  /\ defaults' = [defaults EXCEPT !.historyShared = TRUE]
  /\ UNCHANGED instanceFrame

InstancesNext ==
  \/ InstanceStart
  \/ \E finalScore \in 0..MaxServiceScore :
       \E endReason \in { "self-collision", "user-quit" } :
          InstanceEnd(finalScore, endReason)
  \/ InstanceConstruct

InstancesSpec == InstancesInit /\ [][InstancesNext]_vars

(***************************************************************************)
(* The board size: the GameConfig provider computes it from the window     *)
(* (calculateGameBoardSize) at its first render and on every resize, and   *)
(* GameBoard passes it to the hook, whose state is laid out on the board   *)
(* of the first render.  The mobile range of 15 to 25 cells is scaled with *)
(* the board: 2 to 3 cells beside the desktop board of 5.                  *)
(***************************************************************************)
MobileMinCells == 2
MobileMaxCells == 3
MaxWindowCells == 4

\* minCellSize and maxCellSize, in pixels
MinCellSize == 8
MaxCellSize == 16

Min(a, b) == IF a <= b THEN a ELSE b

\* the width or height left for the board, in pixels
AvailableSizes == { n * MinCellSize : n \in 1..MaxWindowCells }

calculateGameBoardSize(isMobile, availableWidth, availableHeight) ==
  IF ~isMobile THEN DesktopBoard
  ELSE LET targetCells == Min(availableWidth \div MinCellSize, availableHeight \div MinCellSize)
           cells       == Max(MobileMinCells, Min(MobileMaxCells, targetCells))
           cellSize    == Max(MinCellSize,
                              Min(MaxCellSize,
                                  Min(availableWidth \div cells, availableHeight \div cells)))
       IN  IF cells * cellSize > availableWidth \/ cells * cellSize > availableHeight
           THEN [width |-> availableWidth \div cellSize, height |-> availableHeight \div cellSize]
           ELSE [width |-> cells, height |-> cells]

\* the boards the provider can compute
BoardSizes ==
  { calculateGameBoardSize(isMobile, availableWidth, availableHeight) :
      isMobile \in BOOLEAN, availableWidth \in AvailableSizes,
      availableHeight \in AvailableSizes }

\* first render with empty storage: the provider computes the board, the
\* hook's initializer lays out INITIAL_SNAKE, obstacles and food on it
BoardInit ==
  /\ board \in BoardSizes
  /\ \E fresh \in FreshGameStatesOn(board.width, board.height) :
        /\ gameState = GameStateOf(fresh)
        /\ foodExhausted = fresh.exhausted
  /\ gameSpeed = INITIAL_SPEED
  /\ trapSpawnTimer = FALSE
  /\ obstacleReshapeTimer = FALSE
  /\ gameSessionActive = FALSE
  /\ storage = DefaultStorage
  /\ removalTimers = {}
  /\ ticks = 0
  /\ wrapCall = NoWrapCall
  /\ sessionLog = << >>
  /\ setItem = "ok"
  /\ defaults = PristineDefaults

\* handleResize: the provider computes the board again; the hook keeps its
\* state
Resize ==
  /\ \E isMobile \in BOOLEAN :
       \E availableWidth \in AvailableSizes :
         \E availableHeight \in AvailableSizes :
            board' = calculateGameBoardSize(isMobile, availableWidth, availableHeight)
  /\ UNCHANGED << gameState, gameSpeed, trapSpawnTimer, obstacleReshapeTimer,
                  removalTimers, gameSessionActive, storage, ticks, foodExhausted,
                  wrapCall, setItem, sessionLog, defaults >>

BoardNext == Resize

BoardSpec == BoardInit /\ [][BoardNext]_vars

(***************************************************************************)
(* Properties.                                                             *)
(***************************************************************************)
\* a step of moveSnake
TickStep == ticks' = ticks + 1

Abs(n) == IF n < 0 THEN -n ELSE n

\* C1: a tick that does not end the game leaves the snake with the pre-tick
\* length L, with L + 1, or with max(1, floor(L / 2)) cells.
C1_TickLengths ==
  [][ (TickStep /\ ~gameState'.isGameOver)
        => Len(gameState'.snake) \in { Len(gameState.snake), Len(gameState.snake) + 1,
                                       Max(1, Len(gameState.snake) \div 2) } ]_vars

\* C2: a tick whose new head lands on an untriggered trap and not on food
\* leaves max(1, floor(L / 2)) cells, the head-most ones, and marks the trap
\* triggered.
C2_TrapHitHalves ==
  [][ (TickStep /\ ~gameState'.isGameOver /\ HitTraps(gameState) # {} /\ ~AteFood(gameState))
        => /\ Len(gameState'.snake) = Max(1, Len(gameState.snake) \div 2)
           /\ gameState'.snake = SubSeq(<< NewHead(gameState) >> \o gameState.snake, 1,
                                        Len(gameState'.snake))
           /\ \A trap \in HitTraps(gameState) :
                 \E after \in gameState'.traps : after.id = trap.id /\ after.isTriggered ]_vars

\* C3: a direction input d, from the keyboard or from a swipe, leaves the
\* direction unchanged when d is the reverse of the current direction and
\* sets it to d otherwise.
C3_ReverseRejected ==
  [][ \A d \in Directions :
        (KeyPress(d) \/ TouchSwipe(d))
          => gameState'.direction = IF d = oppositeDirections[gameState.direction]
                                    THEN gameState.direction ELSE d ]_vars

\* the cells of a snake
SnakeCells(snake) == { [x |-> snake[i].x, y |-> snake[i].y] : i \in 1..Len(snake) }

\* the cells the obstacles cover
ObstacleFootprint(obstacles) == UNION { ObstacleCells(o) : o \in obstacles }

\* C4: the food cell is not a snake cell, not a trap cell and not inside an
\* obstacle rectangle, as long as no placement used up its attempt budget.
C4_FoodOnFreeCell ==
  ~foodExhausted
    => /\ gameState.food \notin SnakeCells(gameState.snake)
       /\ \A trap \in gameState.traps : [x |-> trap.x, y |-> trap.y] # gameState.food
       /\ gameState.food \notin ObstacleFootprint(gameState.obstacles)

\* food was eaten and placed again next to a trap and the obstacles
C4_Witness ==
  /\ ~foodExhausted
  /\ gameState.score = 1
  /\ gameState.traps # {}
  /\ gameState.obstacles # {}

\* C5: every untriggered trap is on a cell that is not the food cell, not a
\* snake cell, not inside an obstacle rectangle and not the cell of another
\* trap (no placement having used up its attempt budget).
C5_TrapOnFreeCell ==
  ~foodExhausted
    => \A trap \in gameState.traps :
          ~trap.isTriggered
            => /\ [x |-> trap.x, y |-> trap.y] # gameState.food
               /\ [x |-> trap.x, y |-> trap.y] \notin SnakeCells(gameState.snake)
               /\ [x |-> trap.x, y |-> trap.y] \notin ObstacleFootprint(gameState.obstacles)
               /\ \A other \in gameState.traps :
                     other.id # trap.id => ~(other.x = trap.x /\ other.y = trap.y)

\* no two obstacles share a cell, and every obstacle cell is more than
\* SAFE_DISTANCE_FROM_SNAKE cells away from every snake cell in x or in y
ObstaclesSafe(obstacles, snake) ==
  /\ \A o1 \in obstacles : \A o2 \in obstacles :
        o1 # o2 => ObstacleCells(o1) \cap ObstacleCells(o2) = {}
  /\ \A c \in ObstacleFootprint(obstacles) : \A i \in 1..Len(snake) :
        \/ Abs(c.x - snake[i].x) > SAFE_DISTANCE_FROM_SNAKE
        \/ Abs(c.y - snake[i].y) > SAFE_DISTANCE_FROM_SNAKE

\* a firing of the reshape interval that reshapes: the interval runs, the
\* game is in play, the countdown is due, and the step changes at most the
\* obstacles, the food and the countdown
ReshapeStep ==
  /\ obstacleReshapeTimer
  /\ gameState.isPlaying /\ ~gameState.isGameOver
  /\ gameState.obstacleReshapeCountdown - 1 <= 0
  /\ gameState' = [gameState EXCEPT !.obstacles = gameState'.obstacles,
                                    !.food = gameState'.food,
                                    !.obstacleReshapeCountdown =
                                       gameState'.obstacleReshapeCountdown]
  /\ UNCHANGED << gameSpeed, trapSpawnTimer, obstacleReshapeTimer, removalTimers,
                  gameSessionActive, storage, ticks, callVars >>

\* a step of resetGame
ResetStep ==
  /\ ~gameState'.isPlaying /\ ~gameState'.isGameOver
  /\ ~gameSessionActive'
  /\ ResetGame

Paused(gs) == ~gs.isPlaying /\ ~gs.isGameOver

\* C7: while the game is paused no trap-spawn timeout and no reshape interval
\* is pending, and as long as it stays paused (and is not reset) no trap is
\* added, the obstacles are not reshaped and the countdown does not change.
C7_PauseStopsTimers ==
  [][ /\ Paused(gameState') => ~trapSpawnTimer' /\ ~obstacleReshapeTimer'
      /\ (Paused(gameState) /\ Paused(gameState') /\ ~ResetGame)
           => /\ gameState'.traps \subseteq gameState.traps
              /\ gameState'.obstacles = gameState.obstacles
              /\ gameState'.obstacleReshapeCountdown = gameState.obstacleReshapeCountdown ]_vars

\* a session paused in mid-play, with a trap on the board
C7_Witness ==
  /\ Paused(gameState)
  /\ gameSessionActive
  /\ ticks > 0
  /\ \E trap \in gameState.traps : ~trap.isTriggered

\* C8: a tick that brings the score to a multiple of 10 lowers the tick
\* interval by SPEED_INCREASE, not below the minimum; every other tick leaves
\* the tick interval unchanged.
C8_SpeedStep ==
  [][ TickStep
        => gameSpeed' = IF gameState'.score # gameState.score /\ gameState'.score % SpeedEvery = 0
                        THEN Max(MinSpeed, gameSpeed - SPEED_INCREASE)
                        ELSE gameSpeed ]_vars

\* C9: a tick whose new head lands on the body or in an obstacle ends the
\* game without committing the move and closes the open session record with
\* the reason, self-collision before obstacle-collision.
C9_CollisionEndsGame ==
  [][ (TickStep /\ (SelfCollision(gameState) \/ ObstacleCollision(gameState)))
        => /\ gameState' = [gameState EXCEPT !.isGameOver = TRUE, !.isPlaying = FALSE]
           /\ storage.sessionOpen
                => /\ ~storage'.sessionOpen
                   /\ storage'.history =
                        Append(storage.history,
                               [score |-> gameState.score,
                                snakeLength |-> Len(gameState.snake),
                                endReason |-> IF SelfCollision(gameState)
                                              THEN "self-collision"
                                              ELSE "obstacle-collision"]) ]_vars

\* a started game ended in an obstacle on its second tick
C9_Witness ==
  /\ gameState.isGameOver
  /\ ticks = 2
  /\ Len(storage.history) = 1
  /\ storage.history[1].endReason = "obstacle-collision"

\* C10: reset yields INITIAL_SNAKE, RIGHT, score 0, no traps, not playing,
\* not over, INITIAL_SPEED and no saved game, and closes an open session
\* record with user-quit, the score and the snake length at the reset.
C10_ResetYieldsInitial ==
  [][ ResetGame
        => /\ gameState'.snake = INITIAL_SNAKE
           /\ gameState'.direction = "RIGHT"
           /\ gameState'.score = 0
           /\ gameState'.traps = {}
           /\ ~gameState'.isPlaying
           /\ ~gameState'.isGameOver
           /\ gameSpeed' = INITIAL_SPEED
           /\ ~storage'.savedGame.present
           /\ ~storage'.sessionOpen
           /\ storage'.history =
                IF storage.sessionOpen
                THEN Append(storage.history,
                            [score |-> gameState.score, snakeLength |-> Len(gameState.snake),
                             endReason |-> "user-quit"])
                ELSE storage.history ]_vars

\* a resumed game was reset after it had grown and sped up
C10_Witness ==
  /\ ~gameState.isPlaying /\ ~gameState.isGameOver
  /\ gameState.snake = INITIAL_SNAKE
  /\ Len(storage.history) = 1
  /\ storage.history[1] = [score |-> SavedScore + 1, snakeLength |-> Len(INITIAL_SNAKE) + 1,
                           endReason |-> "user-quit"]

\* C11: whenever the session is playing (after start, after un-pausing and
\* after a resume from a game saved in play) the one-second reshape interval
\* is running.
C11_ReshapeCountdownRuns ==
  (gameState.isPlaying /\ ~gameState.isGameOver) => obstacleReshapeTimer

\* C12: wrapPosition maps every integer position, negative coordinates and
\* coordinates at or beyond the board size included, to a position with
\* 0 <= x < width and 0 <= y < height that is congruent to its argument
\* modulo (width, height).
C12_WrapIntoBoard ==
  wrapCall.returned =>
     /\ wrapCall.result.x \in 0..(BoardWidth - 1)
     /\ wrapCall.result.y \in 0..(BoardHeight - 1)
     /\ \E k \in (0 - WrapReach - 1)..(WrapReach + 1) :
           wrapCall.result.x = wrapCall.position.x + k * BoardWidth
     /\ \E k \in (0 - WrapReach - 1)..(WrapReach + 1) :
           wrapCall.result.y = wrapCall.position.y + k * BoardHeight

C12_Witness ==
  /\ wrapCall.returned
  /\ wrapCall.position.x < 0
  /\ wrapCall.position.y >= BoardHeight
  /\ wrapCall.result.x = BoardWidth - 1
  /\ wrapCall.result.y = 1

\* the cell one step from the head in the current direction, wrapped
StepTarget(gs) ==
  [x |-> (gs.snake[1].x + DIRECTIONS[gs.direction].x + BoardWidth) % BoardWidth,
   y |-> (gs.snake[1].y + DIRECTIONS[gs.direction].y + BoardHeight) % BoardHeight]

\* a tick whose new head is not on the body, an obstacle, an untriggered trap
\* or the food
PlainTick ==
  /\ TickStep
  /\ StepTarget(gameState) \notin SnakeCells(gameState.snake)
  /\ StepTarget(gameState) \notin ObstacleFootprint(gameState.obstacles)
  /\ \A trap \in gameState.traps :
        trap.isTriggered \/ ~SamePosition(trap, StepTarget(gameState))
  /\ ~SamePosition(gameState.food, StepTarget(gameState))

Idle == ~gameState.isPlaying /\ ~gameState.isGameOver /\ ~gameSessionActive

\* C14: togglePause only toggles between Playing and Paused: invoked in Idle
\* or in GameOver it does not make the session Playing and starts no
\* scheduler; once GameOver is reached, only reset leaves it.
C14_TogglePauseOnlyPauses ==
  [][ /\ (TogglePause /\ (Idle \/ gameState.isGameOver))
         => /\ ~(gameState'.isPlaying /\ ~gameState'.isGameOver)
            /\ ~trapSpawnTimer'
            /\ ~obstacleReshapeTimer'
      /\ (gameState.isGameOver /\ ~gameState'.isGameOver) => ResetGame ]_vars

\* the session records the service accounts for: finalized ones in the
\* history and the one still open
SessionLedger(st) == Len(st.history) + (IF st.sessionOpen THEN 1 ELSE 0)

\* a step in which startGameSession ran
StartStep ==
  storage'.statistics.gamesThisSession = storage.statistics.gamesThisSession + 1

\* C15: under any sequence of start, togglePause, tick and reset calls, every
\* session record opened by start is finalized exactly once: with reason
\* self-collision or obstacle-collision when a tick ends the game, and with
\* reason user-quit when reset ends it; no session is dropped without a
\* history entry and none is recorded twice.
C15_SessionsFinalizedOnce ==
  [][ /\ StartStep => SessionLedger(storage') = SessionLedger(storage) + 1
      /\ ~StartStep => SessionLedger(storage') = SessionLedger(storage)
      /\ (storage.sessionOpen /\ gameSessionActive /\ TickStep /\ gameState'.isGameOver)
           => /\ Len(storage'.history) = Len(storage.history) + 1
              /\ storage'.history[Len(storage'.history)].endReason
                   \in { "self-collision", "obstacle-collision" }
      /\ (storage.sessionOpen /\ gameSessionActive /\ ResetGame)
           => /\ Len(storage'.history) = Len(storage.history) + 1
              /\ storage'.history[Len(storage'.history)].endReason = "user-quit" ]_vars

\* a step of saveGame: the service holds a saved game it did not hold
SaveStep == ~storage.savedGame.present /\ storage'.savedGame.present

\* a step of resetGame that ends a session or lays out another board: no
\* tick, both schedulers off afterwards, and the service or the board changed
ResetToInitialStep ==
  /\ ticks' = ticks
  /\ ~trapSpawnTimer' /\ ~obstacleReshapeTimer'
  /\ \/ storage'.sessionOpen # storage.sessionOpen
     \/ storage'.history # storage.history
     \/ storage.savedGame.present /\ ~storage'.savedGame.present
     \/ gameState'.obstacles # gameState.obstacles
     \/ gameState'.food # gameState.food
     \/ gameState'.snake # gameState.snake
     \/ gameState'.score # gameState.score

\* C16: when the storage write fails (localStorage.setItem throws, e.g. quota
\* exceeded), endGameSession, saveGameState and clearSavedGame return false,
\* and the tick, scheduler and lifecycle transitions produce the game states
\* they produce with working storage: a colliding tick ends the game and
\* closes the session, a save changes nothing but the saved game, a reset
\* yields the initial state, and no other step but a start touches the
\* service.
C16_StorageFailureHarmless ==
  [][ /\ (TickStep /\ (SelfCollision(gameState) \/ ObstacleCollision(gameState)))
           => /\ gameSessionActive => ~endGameSessionReturns(storage)
              /\ gameState' = [gameState EXCEPT !.isGameOver = TRUE, !.isPlaying = FALSE]
              /\ ~gameSessionActive'
              /\ (gameSessionActive /\ storage.sessionOpen)
                   => /\ ~storage'.sessionOpen
                      /\ ~storage'.savedGame.present
                      /\ storage'.statistics.totalGamesPlayed =
                           storage.statistics.totalGamesPlayed + 1
              /\ UNCHANGED << gameSpeed, trapSpawnTimer, obstacleReshapeTimer >>
      /\ (TickStep /\ ~(SelfCollision(gameState) \/ ObstacleCollision(gameState)))
           => /\ ~gameState'.isGameOver
              /\ UNCHANGED << storage, gameSessionActive >>
      /\ SaveStep
           => /\ ~saveGameStateReturns(storage)
              /\ storage'.savedGame = [present |-> TRUE, gameState |-> gameState,
                                       gameSpeed |-> gameSpeed]
              /\ UNCHANGED << gameState, gameSpeed, trapSpawnTimer, obstacleReshapeTimer,
                              removalTimers, gameSessionActive, ticks >>
      /\ ResetToInitialStep
           => /\ ~clearSavedGameReturns
              /\ gameSessionActive => ~endGameSessionReturns(storage)
              /\ gameState'.snake = INITIAL_SNAKE
              /\ gameState'.direction = "RIGHT"
              /\ gameState'.score = 0
              /\ gameState'.traps = {}
              /\ ~gameState'.isPlaying /\ ~gameState'.isGameOver
              /\ ObstaclesSafe(gameState'.obstacles, INITIAL_SNAKE)
              /\ gameSpeed' = INITIAL_SPEED
              /\ ~gameSessionActive'
              /\ ~storage'.savedGame.present
              /\ ~storage'.sessionOpen
              /\ storage'.statistics.totalGamesPlayed =
                   storage.statistics.totalGamesPlayed
                     + (IF gameSessionActive /\ storage.sessionOpen THEN 1 ELSE 0)
      /\ storage' # storage
           => \/ TickStep /\ gameState'.isGameOver
              \/ SaveStep
              \/ StartStep
              \/ ResetToInitialStep ]_vars

C16_Witness ==
  /\ setItem = "quota-then-throws"
  /\ gameState.isGameOver
  /\ ticks = MaxTicks
  /\ ~storage.sessionOpen
  /\ storage.statistics.totalGamesPlayed = 1
  /\ storage.history = << >>

\* C17: in every reachable state the number of traps on the board (triggered
\* or not) is at most MAX_TRAPS, for any interleaving of trap-spawn firings,
\* ticks, trap-removal timers, pauses and resumes.
C17_TrapLimit == Cardinality(gameState.traps) <= MAX_TRAPS

C17_Witness ==
  /\ Cardinality(gameState.traps) = MAX_TRAPS
  /\ \E trap \in gameState.traps : trap.isTriggered
  /\ gameState.isPlaying /\ ~gameState.isGameOver
  /\ trapSpawnTimer

\* C18: after every tick resolves, and in every other reachable state, the
\* snake has at least one cell and no two of its cells are equal.
C18_SnakeCellsDistinct ==
  /\ Len(gameState.snake) >= 1
  /\ \A i \in 1..Len(gameState.snake) : \A j \in 1..Len(gameState.snake) :
        i # j => ~SamePosition(gameState.snake[i], gameState.snake[j])

C18_Witness ==
  /\ ticks >= 1
  /\ gameState.isGameOver
  /\ Len(storage.history) = 1
  /\ storage.history[1].endReason = "self-collision"
  /\ Len(gameState.snake) = Len(INITIAL_SNAKE)

\* C19: after any sequence of completed sessions (for any number of sessions,
\* also more than the history capacity), totalGamesPlayed equals the number
\* of completed sessions, bestScore equals the largest final score, and
\* averageScore equals the sum of all those sessions' final scores divided by
\* totalGamesPlayed.
C19_Statistics ==
  /\ storage.statistics.totalGamesPlayed = Len(sessionLog)
  /\ storage.statistics.bestScore =
       Largest({ 0 } \cup { sessionLog[i].score : i \in 1..Len(sessionLog) })
  /\ Len(sessionLog) > 0
       => storage.statistics.averageScore.numerator * storage.statistics.totalGamesPlayed
            = TotalScore(sessionLog) * storage.statistics.averageScore.denominator

\* C20: after any sequence of sessions, getGameHistory returns at most
\* maxHistorySize sessions, and they are the most recently completed ones in
\* most-recent-first order.
C20_RecentHistory ==
  LET returned == getGameHistory(storage)
  IN  /\ Len(returned) <= MAX_HISTORY_SIZE
      /\ Len(returned) <= Len(sessionLog)
      /\ \A i \in 1..Len(returned) : returned[i] = sessionLog[Len(sessionLog) + 1 - i]

C20_Witness ==
  /\ Len(sessionLog) = MAX_HISTORY_SIZE + 1
  /\ Len(getGameHistory(storage)) = MAX_HISTORY_SIZE
  /\ getGameHistory(storage)[1].score = MaxServiceScore
  /\ getGameHistory(storage)[MAX_HISTORY_SIZE].score = 1
  /\ sessionLog[1].score = 0

\* the session is Playing
Playing(gs) == gs.isPlaying /\ ~gs.isGameOver

\* C21: while the session is Playing a trap-spawn timeout is pending; every
\* firing leaves one pending, whether it placed a trap, found no free cell or
\* met the trap cap; a firing either adds exactly one untriggered trap (the
\* session Playing and below the cap) or leaves the game state unchanged.
C21_TrapTimerPending ==
  [][ /\ Playing(gameState) => trapSpawnTimer
      /\ Playing(gameState') => trapSpawnTimer'
      /\ TrapSpawnFires
           => /\ trapSpawnTimer'
              /\ \/ gameState' = gameState
                 \/ /\ Playing(gameState)
                    /\ Cardinality(gameState.traps) < MAX_TRAPS
                    /\ Cardinality(gameState'.traps) = Cardinality(gameState.traps) + 1
                    /\ gameState.traps \subseteq gameState'.traps
                    /\ \A trap \in gameState'.traps \ gameState.traps : ~trap.isTriggered
                    /\ gameState' = [gameState EXCEPT !.traps = gameState'.traps] ]_vars

\* in play after a tick, the cap reached by untriggered traps, the timeout
\* still pending
C21_Witness ==
  /\ Playing(gameState)
  /\ ticks >= 1
  /\ Cardinality(gameState.traps) = MAX_TRAPS
  /\ \A trap \in gameState.traps : ~trap.isTriggered
  /\ trapSpawnTimer

\* the direction the last tick applied, read off the snake: the step that
\* leads from the second cell to the head
LastAppliedDirection(gs) ==
  CHOOSE d \in Directions :
     wrapPosition([x |-> gs.snake[2].x + DIRECTIONS[d].x,
                   y |-> gs.snake[2].y + DIRECTIONS[d].y]) = gs.snake[1]

\* C22: with direction requests delivered through the keyboard handler, the
\* direction a tick applies is never the reverse of the direction the
\* previous tick applied, whatever keys were pressed in between, and no tick
\* takes the head back onto the cell behind it.
C22_NoReversalBetweenTicks ==
  [][ (TickStep /\ Len(gameState.snake) >= 2)
        => /\ ticks >= 1
                => gameState.direction # oppositeDirections[LastAppliedDirection(gameState)]
           /\ ~SamePosition(NewHead(gameState), gameState.snake[2]) ]_vars

\* C23: in every reachable state where the session is not Playing because
\* the game ended (GameOver) or was reset (Idle), no trap-spawn timeout and
\* no reshape interval is pending.
C23_NoTimersWhenStopped ==
  (gameState.isGameOver \/ Idle) => ~trapSpawnTimer /\ ~obstacleReshapeTimer

\* the fields of the GameSession a pause has to preserve
SessionFields(gs) ==
  << gs.snake, gs.food, gs.traps, gs.trapWarning, gs.obstacles, gs.direction,
     gs.score, gs.obstacleReshapeCountdown >>

\* C24: the state right after a resume equals the state right before the
\* pause in snake, food, traps, trapWarning, obstacles, direction, score and
\* countdown: the pause and the resume change none of these fields, and no
\* timer callback that runs while the session is paused changes one.
C24_PauseKeepsState ==
  [][ /\ (TogglePause /\ ~gameState.isGameOver)
           => SessionFields(gameState') = SessionFields(gameState)
      /\ (/\ Paused(gameState)
          /\ Paused(gameState')
          /\ \/ TrapSpawnFires
             \/ ReshapeTimerFires
             \/ \E id \in removalTimers : TrapRemovalFires(id))
           => SessionFields(gameState') = SessionFields(gameState) ]_vars

\* the ids a trap can carry
TrapIds == 1..(MAX_TRAPS + MaxTicks + 1)

\* C25: every trap that becomes triggered is eventually removed from the trap
\* set, in every execution: also when the session is paused or ends in the
\* meantime, and when the state was autosaved while the trap was triggered and
\* the session is resumed from that saved state.
C25_TriggeredTrapRemoved ==
  \A id \in TrapIds :
     (\E trap \in gameState.traps : trap.id = id /\ trap.isTriggered)
       ~> (\A trap \in gameState.traps : trap.id # id)

\* a firing of the reshape interval with the countdown at 1: in play before
\* and after, no tick, and the obstacles, the food or the countdown changed
DueFiringStep ==
  /\ gameState.obstacleReshapeCountdown = 1
  /\ Playing(gameState')
  /\ ticks' = ticks
  /\ \/ gameState'.obstacles # gameState.obstacles
     \/ gameState'.food # gameState.food
     \/ gameState'.obstacleReshapeCountdown # gameState.obstacleReshapeCountdown

\* C26: the firing that would bring the countdown to 0 replaces the obstacle
\* set by a safe placement around the snake, regenerates the food against the
\* new obstacles and resets the countdown to a whole number of seconds inside
\* [OBSTACLE_RESHAPE_MIN_TIME, OBSTACLE_RESHAPE_MAX_TIME], leaving snake,
\* direction, score and traps unchanged; every other firing while Playing
\* changes only the countdown, by exactly -1; the countdown is at least 1 in
\* every state.
C26_ReshapeCountdown ==
  [][ /\ gameState.obstacleReshapeCountdown >= 1
      /\ gameState'.obstacleReshapeCountdown >= 1
      /\ (obstacleReshapeTimer /\ Playing(gameState)
            /\ (DueFiringStep
                  \/ (gameState.obstacleReshapeCountdown > 1 /\ ReshapeTimerFires)))
           => IF gameState.obstacleReshapeCountdown = 1
              THEN /\ Cardinality(gameState'.obstacles) <= OBSTACLES_COUNT
                   /\ ObstaclesSafe(gameState'.obstacles, gameState.snake)
                   /\ ~foodExhausted'
                        => /\ gameState'.food \notin ObstacleFootprint(gameState'.obstacles)
                           /\ gameState'.food \notin SnakeCells(gameState.snake)
                           /\ \A trap \in gameState.traps : ~SamePosition(trap, gameState'.food)
                   /\ gameState'.obstacleReshapeCountdown * 1000 >=
                        (OBSTACLE_RESHAPE_MIN_TIME \div 1000) * 1000
                   /\ gameState'.obstacleReshapeCountdown * 1000 <= OBSTACLE_RESHAPE_MAX_TIME
                   /\ gameState' = [gameState EXCEPT
                                      !.obstacles = gameState'.obstacles,
                                      !.food = gameState'.food,
                                      !.obstacleReshapeCountdown =
                                         gameState'.obstacleReshapeCountdown]
              ELSE gameState' = [gameState EXCEPT !.obstacleReshapeCountdown =
                                                     gameState.obstacleReshapeCountdown - 1] ]_vars

\* a reshape during play put an obstacle next to the initial snake's cells
\* and the countdown runs again from its largest value
C26_Witness ==
  /\ Playing(gameState)
  /\ obstacleReshapeTimer
  /\ gameState.obstacleReshapeCountdown = Largest(ReshapeCountdowns)
  /\ gameState.obstacleReshapeCountdown > 1
  /\ ticks = MaxTicks
  /\ \E o \in gameState.obstacles :
        ObstacleCells(o) \cap ReservedAround(INITIAL_SNAKE, SAFE_DISTANCE_FROM_SNAKE) # {}

\* the desktop board or a mobile board inside the clamped range
ClaimedBoard(b) ==
  \/ b = DesktopBoard
  \/ /\ b.width \in MobileMinCells..MobileMaxCells
     /\ b.height \in MobileMinCells..MobileMaxCells

OnBoard(cell, b) ==
  /\ 0 <= cell.x /\ cell.x < b.width
  /\ 0 <= cell.y /\ cell.y < b.height

\* C27: for every board size the application passes to the hook (the
\* desktop board and the mobile boards of the clamped range), every snake
\* cell, the food cell and every trap cell lie on the board, from the initial
\* state on.
C27_CellsOnBoard ==
  ClaimedBoard(board)
    => /\ \A i \in 1..Len(gameState.snake) : OnBoard(gameState.snake[i], board)
       /\ OnBoard(gameState.food, board)
       /\ \A trap \in gameState.traps : OnBoard(trap, board)

\* the triggered traps whose removal timeout is pending
AwaitingRemoval(gs, timers) ==
  { trap \in gs.traps : trap.isTriggered /\ trap.id \in timers }

\* C28: from the tick that triggers a trap until that trap's removal timeout
\* fires, trapWarning is set to the position of a triggered trap awaiting
\* removal: neither a tick nor another callback inside that window unsets it,
\* and the removal timeout of an earlier trap does not clear the warning of a
\* later one.
C28_WarningWhileTriggered ==
  AwaitingRemoval(gameState, removalTimers) # {}
    => \E trap \in AwaitingRemoval(gameState, removalTimers) :
          gameState.trapWarning = [x |-> trap.x, y |-> trap.y]

\* C29: a GameStorageService constructed while storage holds no data starts
\* with an empty history and all-zero statistics, whatever startGameSession
\* and endGameSession calls were made before on other instances constructed
\* the same way.
C29_FreshInstanceIsEmpty ==
  [][ InstanceConstruct
        => /\ storage'.history = << >>
           /\ storage'.statistics = DefaultStatistics ]_vars

\* C30: after an obstacle reshape fires during play the snake's next tick
\* does not end in obstacle-collision: the cell the head moves to, wrapped to
\* the opposite edge when the head is on a board edge, is in no new obstacle.
C30_NoCollisionAfterReshape ==
  [][ ReshapeStep => ~ObstacleCollision(gameState') ]_vars

=============================================================================
